---- MODULE Spec2Model ----
(***************************************************************************)
(* Thru' The Wall (src/ThruTheWall.py): the global game state, the        *)
(* per-frame update cycle (paddle input, paddle collision, boundary       *)
(* reflection, ball motion), the round loop and the game-over screen.     *)
(***************************************************************************)
EXTENDS Integers, Sequences, FiniteSets, TLC

(* ---------------------------------------------------------------- bounds *)
\* paddle hits explored per game (t grows without bound under perfect play)
MaxHits == 2
\* games explored (each restart with Y nests a main_game_loop call)
MaxGames == 2
\* how far outside the playfield check_boundaries is exercised on its own
CBMargin == 2

(* ------------------------------------------------- direction constants *)
D_DOWN_RIGHT == 100
D_UP_RIGHT == 120
D_UP_LEFT == 140
D_DOWN_LEFT == 160
D_UP == 180
D_DOWN == 200

CanonCodes == {D_DOWN_RIGHT, D_UP_RIGHT, D_UP_LEFT, D_DOWN_LEFT, D_UP, D_DOWN}
VariantCodes == {106, 125, 145, 166, 206}
DirCodes == CanonCodes \cup VariantCodes

\* _VARIANT_TO_CANON.get(g, g)
canonical(g) ==
  CASE g = 106 -> D_DOWN_RIGHT
    [] g = 125 -> D_UP_RIGHT
    [] g = 145 -> D_UP_LEFT
    [] g = 166 -> D_DOWN_LEFT
    [] g = 206 -> D_DOWN
    [] OTHER -> g

(* ------------------------------------------------------- pure helpers *)
\* move_ball(m, n, g): the new (m, n) as a record
move_ball(m, n, g) ==
  LET cg == canonical(g) IN
  IF cg = D_DOWN_RIGHT THEN [m |-> m + 1, n |-> n + 1]
  ELSE IF cg = D_UP_RIGHT THEN [m |-> m - 1, n |-> n + 1]
  ELSE IF cg = D_UP_LEFT THEN [m |-> m - 1, n |-> n - 1]
  ELSE IF cg = D_DOWN_LEFT THEN [m |-> m + 1, n |-> n - 1]
  ELSE IF cg = D_UP THEN [m |-> m - 1, n |-> n]
  ELSE IF cg = D_DOWN THEN [m |-> m + 1, n |-> n]
  ELSE [m |-> m, n |-> n]

\* check_boundaries with the right wall one column too far
check_boundaries_LateWall(m, n, g, w) ==
  LET cg == canonical(g) IN
  IF n > 31 /\ cg \in {D_DOWN_RIGHT, D_UP_RIGHT} THEN D_DOWN_LEFT
  ELSE IF ~(n > 31) /\ n < 1 /\ cg \in {D_UP_LEFT, D_DOWN_LEFT} THEN D_DOWN_RIGHT
  ELSE IF m < 1 /\ cg \in {D_UP_RIGHT, D_UP_LEFT, D_UP} THEN D_DOWN
  ELSE g

\* check_boundaries testing g itself instead of canonical(g)
check_boundaries_NoCanon(m, n, g, w) ==
  IF n > 30 /\ g \in {D_DOWN_RIGHT, D_UP_RIGHT} THEN D_DOWN_LEFT
  ELSE IF ~(n > 30) /\ n < 1 /\ g \in {D_UP_LEFT, D_DOWN_LEFT} THEN D_DOWN_RIGHT
  ELSE IF m < 1 /\ g \in {D_UP_RIGHT, D_UP_LEFT, D_UP} THEN D_DOWN
  ELSE g

\* check_boundaries(m, n, g, w): `if n > 30: ... elif n < 1: ...` with an
\* early return inside each, then the independent `if m < 1`, then `return g`
check_boundaries(m, n, g, w) ==
  LET cg == canonical(g) IN
  IF n > 30 /\ cg \in {D_DOWN_RIGHT, D_UP_RIGHT} THEN D_DOWN_LEFT
  ELSE IF ~(n > 30) /\ n < 1 /\ cg \in {D_UP_LEFT, D_DOWN_LEFT} THEN D_DOWN_RIGHT
  ELSE IF m < 1 /\ cg \in {D_UP_RIGHT, D_UP_LEFT, D_UP} THEN D_DOWN
  ELSE g

\* check_paddle_collision counting column a+4 as part of the paddle
check_paddle_collision_Wide(m, n, a, g, t) ==
  IF m = 20 /\ a <= n /\ n <= a + 4
  THEN [g |-> IF n = a \/ n = a + 1 THEN D_UP_LEFT
              ELSE IF n = a + 2 THEN D_UP
              ELSE D_UP_RIGHT,
        t |-> t + 10]
  ELSE [g |-> g, t |-> t]

\* check_paddle_collision sending the centre hit straight on instead of up
check_paddle_collision_NoUp(m, n, a, g, t) ==
  IF m = 20 /\ a <= n /\ n <= a + 3
  THEN [g |-> IF n = a \/ n = a + 1 THEN D_UP_LEFT
              ELSE IF n = a + 2 THEN g
              ELSE D_UP_RIGHT,
        t |-> t + 10]
  ELSE [g |-> g, t |-> t]

\* check_paddle_collision(m, n, a, g): the returned direction and the
\* global t after the call
check_paddle_collision(m, n, a, g, t) ==
  IF m = 20 /\ a <= n /\ n <= a + 3
  THEN [g |-> IF n = a \/ n = a + 1 THEN D_UP_LEFT
              ELSE IF n = a + 2 THEN D_UP
              ELSE IF n = a + 3 \/ n = a + 4 THEN D_UP_RIGHT
              ELSE g,
        t |-> t + 10]
  ELSE [g |-> g, t |-> t]

\* the paddle input with the fast-left guard off by one
PaddleInput_LooseLeft(a, o, p, shift) ==
  LET a1 == IF o /\ a > 1 THEN a - 1 ELSE a
      a2 == IF shift /\ o /\ a1 > 1 THEN a1 - 2 ELSE a1
      a3 == IF p /\ a2 < 28 THEN a2 + 1 ELSE a2
      a4 == IF shift /\ p /\ a3 < 27 THEN a3 + 2 ELSE a3
  IN a4

\* the four sequential key tests of the input handling
PaddleInput(a, o, p, shift) ==
  LET a1 == IF o /\ a > 1 THEN a - 1 ELSE a
      a2 == IF shift /\ o /\ a1 > 2 THEN a1 - 2 ELSE a1
      a3 == IF p /\ a2 < 28 THEN a2 + 1 ELSE a2
      a4 == IF shift /\ p /\ a3 < 27 THEN a3 + 2 ELSE a3
  IN a4

\* the inner loop's condition with the baseline one row too low
InPlay_Late(m) == m <= 21

\* `while m <= 20`
InPlay(m) == m <= 20

\* draw_status: the score shown
current_score(tt, t) == tt * 600 + t

(* -------------------------------------------------------------- state *)
VARIABLES
  pc,       \* where control is: "title", "main", "for", "loop", "game_over",
            \* "wait_key", "exit_check", "done", and "cb_call"/"cb_ret" for
            \* check_boundaries run on its own
  tt, t, a, w, g, r, running,   \* the module's globals
  m, n,     \* the ball: locals of the running main_game_loop
  ri,       \* next value of the range(1, 7) iterator of the running for loop
  depth,    \* game_over calls suspended in their key loop by a Y restart
  won,      \* "You WON the 6 rounds!" has been printed
  games,    \* history: main_game_loop calls so far
  lastKey,  \* history: last key handled by a game-over screen
  pm, pn, pa, pg, pt  \* history: m, n, a (after the input), g, t at the start
                      \* of the last frame

vars == <<pc, tt, t, a, w, g, r, running, m, n, ri, depth, won, games,
          lastKey, pm, pn, pa, pg, pt>>

\* module level: the globals as assigned at import, control in title_screen
Init ==
  /\ pc = "title"
  /\ tt = -1 /\ t = 0 /\ a = 13 /\ w = 0 /\ g = D_DOWN /\ r = 0
  /\ running = TRUE
  /\ m = 10 /\ n = 8 /\ ri = 1
  /\ depth = 0 /\ won = FALSE /\ games = 0 /\ lastKey = "none"
  /\ pm = 10 /\ pn = 8 /\ pa = 13 /\ pg = D_DOWN /\ pt = 0

(* ------------------------------------------------------------ actions *)
\* title_screen: any KEYDOWN ends the wait and main_game_loop is called
TitleKey ==
  /\ pc = "title"
  /\ pc' = "main"
  /\ UNCHANGED <<tt, t, a, w, g, r, running, m, n, ri, depth, won, games,
                 lastKey, pm, pn, pa, pg, pt>>

\* main_game_loop entry: tt += 1; t = 0; the for loop's iterator is created
MainEntry ==
  /\ pc = "main"
  /\ tt' = tt + 1
  /\ t' = 0
  /\ ri' = 1
  /\ games' = games + 1
  /\ pc' = "for"
  /\ UNCHANGED <<a, w, g, r, running, m, n, depth, won, lastKey,
                 pm, pn, pa, pg, pt>>

\* after the for loop: `if r == 6: print(...)`, then game_over() is called
AfterFor ==
  /\ won' = (won \/ r = 6)
  /\ pc' = "game_over"

\* `for r in range(1, 7)`: the next round is initialised, or the loop is
\* exhausted
ForNext ==
  /\ pc = "for"
  /\ IF ri <= 6
     THEN \E k \in 0..13 :
            /\ r' = ri
            /\ ri' = ri + 1
            /\ m' = 10
            /\ n' = 8 + k
            /\ g' = D_DOWN
            /\ a' = 13
            /\ w' = 0
            /\ pc' = "loop"
            /\ pm' = 10 /\ pn' = 8 + k /\ pa' = 13 /\ pg' = D_DOWN /\ pt' = t
            /\ UNCHANGED won
     ELSE /\ AfterFor
          /\ UNCHANGED <<r, ri, m, n, g, a, w, pm, pn, pa, pg, pt>>
  /\ UNCHANGED <<tt, t, running, depth, games, lastKey>>

\* one pass of the inner loop's body: paddle input, paddle collision,
\* boundary check, ball move
Frame(o, p, shift) ==
  /\ pc = "loop"
  /\ InPlay(m)
  /\ LET a1 == PaddleInput(a, o, p, shift)
         c == check_paddle_collision(m, n, a1, g, t)
         g2 == check_boundaries(m, n, c.g, w)
         b == move_ball(m, n, g2)
     IN /\ c.t <= 10 * MaxHits
        /\ a' = a1
        /\ t' = c.t
        /\ g' = g2
        /\ m' = b.m
        /\ n' = b.n
        /\ pm' = m /\ pn' = n /\ pa' = a1 /\ pg' = g /\ pt' = t
  /\ UNCHANGED <<pc, tt, w, r, running, ri, depth, won, games, lastKey>>

\* the inner loop's condition fails: `break` leaves the for loop
LoopExit ==
  /\ pc = "loop"
  /\ ~InPlay(m)
  /\ AfterFor
  /\ UNCHANGED <<tt, t, a, w, g, r, running, m, n, ri, depth, games,
                 lastKey, pm, pn, pa, pg, pt>>

\* game_over entry: tt += 1, the final score is shown, the key loop starts
GameOverEntry ==
  /\ pc = "game_over"
  /\ tt' = tt + 1
  /\ pc' = "wait_key"
  /\ UNCHANGED <<t, a, w, g, r, running, m, n, ri, depth, won, games,
                 lastKey, pm, pn, pa, pg, pt>>

\* game_over, K_y: main_game_loop() is called from inside the key loop
KeyY ==
  /\ pc = "wait_key"
  /\ games < MaxGames
  /\ depth' = depth + 1
  /\ lastKey' = "Y"
  /\ pc' = "main"
  /\ UNCHANGED <<tt, t, a, w, g, r, running, m, n, ri, won, games,
                 pm, pn, pa, pg, pt>>

\* game_over, K_n: running = False; return. The calling main_game_loop
\* returns too, either to the key loop of the game_over that called it or,
\* through title_screen, to module level
KeyN ==
  /\ pc = "wait_key"
  /\ running' = FALSE
  /\ lastKey' = "N"
  /\ IF depth > 0
     THEN depth' = depth - 1 /\ pc' = "wait_key"
     ELSE depth' = depth /\ pc' = "exit_check"
  /\ UNCHANGED <<tt, t, a, w, g, r, m, n, ri, won, games, pm, pn, pa, pg, pt>>

\* a QUIT event in any of the three event loops: pygame.quit(); sys.exit()
Quit ==
  /\ \/ pc = "title"
     \/ pc = "wait_key"
     \/ pc = "loop" /\ InPlay(m)
  /\ pc' = "done"
  /\ UNCHANGED <<tt, t, a, w, g, r, running, m, n, ri, depth, won, games,
                 lastKey, pm, pn, pa, pg, pt>>

\* module level after title_screen() returns: `if not running:` quit and exit
FinalExit ==
  /\ pc = "exit_check"
  /\ pc' = "done"
  /\ UNCHANGED <<tt, t, a, w, g, r, running, m, n, ri, depth, won, games,
                 lastKey, pm, pn, pa, pg, pt>>

Next ==
  \/ TitleKey
  \/ MainEntry
  \/ ForNext
  \/ \E o \in BOOLEAN, p \in BOOLEAN, shift \in BOOLEAN : Frame(o, p, shift)
  \/ LoopExit
  \/ GameOverEntry
  \/ KeyY
  \/ KeyN
  \/ Quit
  \/ FinalExit

Spec == Init /\ [][Next]_vars

(* ------------------------------- check_boundaries applied on its own *)
CBRows == (0 - CBMargin)..(21 + CBMargin)
CBCols == (0 - CBMargin)..(31 + CBMargin)

InitCB ==
  /\ pc = "cb_call"
  /\ m \in CBRows /\ n \in CBCols /\ g \in DirCodes /\ w \in {0, 1}
  /\ tt = -1 /\ t = 0 /\ a = 13 /\ r = 0 /\ running = TRUE /\ ri = 1
  /\ depth = 0 /\ won = FALSE /\ games = 0 /\ lastKey = "none"
  /\ pm = m /\ pn = n /\ pa = 13 /\ pg = g /\ pt = 0

CallCheckBoundaries ==
  /\ pc = "cb_call"
  /\ g' = check_boundaries(m, n, g, w)
  /\ pg' = g
  /\ pc' = "cb_ret"
  /\ UNCHANGED <<tt, t, a, w, r, running, m, n, ri, depth, won, games,
                 lastKey, pm, pn, pa, pt>>

NextCB == CallCheckBoundaries

SpecCB == InitCB /\ [][NextCB]_vars

(* ------------------------------------------------------------- claims *)
\* the hit test of a frame, on the values the frame started with
HitAt(bm, bn, ba) == bm = 20 /\ ba <= bn /\ bn <= ba + 3

\* C1: a game progresses across six rounds: when the inner loop of a round
\* r < 6 is left, control returns to the for loop, which starts round r + 1
\* with the ball at m = 10, n in 8..21, g = DOWN and the paddle at a = 13.
SixRounds ==
  [][(pc = "loop" /\ ~InPlay(m) /\ r < 6)
       => \/ pc' = "for"
          \/ (pc' = "loop" /\ r' = r + 1 /\ m' = 10 /\ n' \in 8..21
              /\ g' = D_DOWN /\ a' = 13)]_vars

\* C2: while a game is played, and when it ends, the ball is inside the
\* playfield: 0 <= m <= 21 and 0 <= n <= 31.
BallInField ==
  pc \in {"loop", "game_over"} => (0 <= m /\ m <= 21 /\ 0 <= n /\ n <= 31)

BallInFieldWitness == pc = "loop" /\ m = 0 /\ n = 31 /\ t > 0

\* C3: every frame starts with m <= 20; game_over is entered only from a
\* state with m = 21; a frame that starts on row 20 with the column outside
\* [a, a+3] (a after the input) moves the ball to row 21, and from row 21
\* the next step is game_over.
GameOverOnMiss ==
  /\ [][(pc = "loop" /\ pc' = "loop") => m <= 20]_vars
  /\ [][(pc # "game_over" /\ pc' = "game_over") => m = 21]_vars
  /\ [][(pc = "loop" /\ pc' = "loop" /\ m = 20 /\ ~HitAt(m, n, a'))
          => m' = 21]_vars
  /\ [][(pc = "loop" /\ m > 20) => pc' = "game_over"]_vars

GameOverOnMissWitness ==
  pc = "game_over" /\ pm = 20 /\ ~HitAt(pm, pn, pa) /\ m = 21 /\ t > 0

\* C4: a frame adds exactly 10 to t if, after its paddle input, the ball is
\* on row 20 with a <= n <= a+3, and leaves t unchanged otherwise; t is a
\* non-negative multiple of 10.
ScoreRule ==
  /\ pc = "loop" => t = (IF HitAt(pm, pn, pa) THEN pt + 10 ELSE pt)
  /\ t >= 0
  /\ t % 10 = 0

ScoreRuleWitness == pc = "loop" /\ HitAt(pm, pn, pa) /\ pt = 10 /\ t = 20

\* C5: a frame that registers a paddle hit ends with the ball on row 19 and
\* the direction UP_LEFT for n in {a, a+1}, UP for n = a+2, UP_RIGHT for
\* n = a+3: the boundary check of that frame does not override it.
PaddleHitSendsUp ==
  (pc = "loop" /\ HitAt(pm, pn, pa))
    => /\ m = 19
       /\ g = (IF pn <= pa + 1 THEN D_UP_LEFT
               ELSE IF pn = pa + 2 THEN D_UP
               ELSE D_UP_RIGHT)

PaddleHitSendsUpWitness ==
  pc = "loop" /\ HitAt(pm, pn, pa) /\ pn = 30 /\ pa = 27 /\ g = D_UP_RIGHT

\* C6: the paddle position a stays in 1..28.
PaddleInRange == 1 <= a /\ a <= 28

PaddleInRangeWitness == pc = "loop" /\ pm # m /\ pa = 1 /\ a = 1

\* C7: after an N key press on a game-over screen running is False, no
\* further key is awaited and control is at the program's final exit.
NExits ==
  lastKey = "N" => (~running /\ pc \in {"exit_check", "done"})

\* C8: tt is k-1 at the start of the k-th game, where the score shown is
\* tt*600 + t with t = 0.
TtCountsGames ==
  pc = "for" => (tt = games - 1 /\ current_score(tt, t) = (games - 1) * 600)

\* C10: game_over is reached from the round loop with r = 6 and the message
\* "You WON the 6 rounds!" emitted.
WonSixRounds == pc = "game_over" => (r = 6 /\ won)

\* C9: the reference for check_boundaries
Rightward(d) == d \in {100, 106, 120, 125}
Leftward(d) == d \in {140, 145, 160, 166}
Upward(d) == d \in {120, 125, 140, 145, 180}

RefBoundaries(bm, bn, d) ==
  IF bn > 30 /\ Rightward(d) THEN 160
  ELSE IF bn < 1 /\ Leftward(d) THEN 100
  ELSE IF bm < 1 /\ Upward(d) THEN 200
  ELSE d

\* C9: check_boundaries(m, n, g, w) equals the reference for every m, n, g
\* and w; the result never points further out of a wall that was crossed,
\* and w has no effect.
BoundariesMatchReference ==
  pc = "cb_ret"
    => /\ g = RefBoundaries(m, n, pg)
       /\ n > 30 => ~Rightward(g)
       /\ n < 1 => ~Leftward(g)
       /\ m < 1 => ~Upward(g)
       /\ \A w2 \in {0, 1} : check_boundaries(m, n, pg, w2) = g

BoundariesMatchReferenceWitness ==
  pc = "cb_ret" /\ n > 30 /\ m < 1 /\ pg = 125 /\ g = D_DOWN_LEFT /\ w = 1

====
